---- MODULE Spec2Model ----
(***************************************************************************)
(* Model of the socket.io chat server in src/server.js: the connection     *)
(* handlers (register, private_message, group_message, join_group,         *)
(* leave_group, typing, stop_typing, disconnect), the in-memory            *)
(* activeUsers map, the User / Message / Group collections they read and   *)
(* write, and the two REST handlers that change a group's member list.     *)
(*                                                                         *)
(* Every handler is an async function: it runs synchronously up to its     *)
(* first await, the awaited database operation is applied by the database  *)
(* at some later moment, and the continuation runs later still.  Each of   *)
(* these is one step of the model, so steps of different handlers (of the  *)
(* same or of different sockets) interleave exactly where the code awaits. *)
(***************************************************************************)
EXTENDS Integers, Sequences, FiniteSets, TLC

\* ------------------------------------------------------------------ bounds
MaxEvents == 3          \* number of handler invocations in one behaviour
MaxFailures == 1        \* number of database operations that may fail

\* ------------------------------------------------------------- value sets
Sockets == {"h1", "h2"}
Identities == {"alice", "bob"}
GroupIds == {"g1"}
NoSocket == "none"      \* absent map entry / undefined socketId
NoName == ""            \* undefined socket.username, empty argument
NoGroup == ""           \* empty groupId argument
MissingGroup == "g0"    \* a group id no Group document has
Payloads == { [content |-> "",   photo |-> ""],
              [content |-> "hi", photo |-> ""],
              [content |-> "",   photo |-> "p.png"] }

TaskIds == 1..MaxEvents

\* ------------------------------------------------------------------ state
VARIABLES
    connected,     \* socket -> is the transport connection open
    username,      \* socket -> socket.username (NoName = undefined)
    rooms,         \* socket -> set of group rooms the socket joined
    activeUsers,   \* the activeUsers Map: identity -> socket id or NoSocket
    users,         \* User collection: identity -> document
    groups,        \* Group collection: group id -> document
    messages,      \* Message collection, in insertion order
    inbox,         \* socket -> events written to that socket, in order
    broadcast,     \* io.emit('user_status') events, in order
    tasks,         \* handler invocations: id -> record (pc = await position)
    nextTask,      \* id of the next handler invocation
    failures       \* database failures so far

vars == <<connected, username, rooms, activeUsers, users, groups, messages,
          inbox, broadcast, tasks, nextTask, failures>>

\* --------------------------------------------------------------- documents
NoUser == [exists |-> FALSE, online |-> FALSE, socketId |-> NoSocket]

NoTask == [kind |-> "none", sock |-> NoSocket, pc |-> "done", name |-> NoName,
           gid |-> NoGroup, content |-> "", photo |-> "", sender |-> NoName,
           dsender |-> NoName, found |-> NoUser, gexists |-> FALSE,
           members |-> <<>>, ver |-> 0, i |-> 0]

Event(type, id, sender, info) ==
    [type |-> type, id |-> id, sender |-> sender, info |-> info]

\* socket.emit('error', { message }); id names the invocation that sent it
ErrorEvent(id, info) == Event("error", id, NoName, info)

\* ----------------------------------------------------------------- helpers
\* Array.prototype.includes on a list of strings
Includes(s, x) == \E k \in 1..Len(s) : s[k] = x

\* Array.prototype.filter(m => m !== x)
RECURSIVE FilterOut(_, _)
FilterOut(s, x) ==
    IF s = <<>> THEN <<>>
    ELSE IF Head(s) = x THEN FilterOut(Tail(s), x)
         ELSE <<Head(s)>> \o FilterOut(Tail(s), x)

\* socket.emit / io.to(id).emit: the packet reaches the socket only while
\* its connection is open; conn is the connection map at the time of the call
EmitTo(conn, inb, h, ev) ==
    IF h \in Sockets /\ conn[h] THEN [inb EXCEPT ![h] = Append(@, ev)] ELSE inb

\* the `user && user.online && user.socketId` test of the routing code
Routable(u) == u.exists /\ u.online /\ u.socketId # NoSocket

\* User.findOne({ username }) : the document, or null
FindUser(name) == IF name \in Identities THEN users[name] ELSE NoUser

\* a body test that lets every payload through
NoBodyCheck(p) == FALSE

\* the `!content && !photo` test of the two send handlers
EmptyBody(p) == p.content = "" /\ p.photo = ""

\* socket.io hands an event to its handler only while the socket is connected
CanDispatch(h) == connected[h] /\ nextTask <= MaxEvents

\* a handler is invoked: its invocation record takes the next id
Spawn(t) == /\ tasks' = [tasks EXCEPT ![nextTask] = t]
            /\ nextTask' = nextTask + 1

\* a database operation may reject
CanFail == failures < MaxFailures

\* what the model keeps of a handler invocation that has returned: which
\* handler it was and on which socket (its arguments and locals are gone)
Returned(kind, h) == [NoTask EXCEPT !.kind = kind, !.sock = h]

\* the handler invocation t returns
Finish(t) == [tasks EXCEPT ![t] = Returned(tasks[t].kind, tasks[t].sock)]

\* ------------------------------------------------------------------- Init
\* the server has started with an empty activeUsers map and an empty User and
\* Message collection, two clients have connected, and group g1 was created
\* by POST /api/groups with admin alice and members [alice, bob]
Init ==
    /\ connected = [h \in Sockets |-> TRUE]
    /\ username = [h \in Sockets |-> NoName]
    /\ rooms = [h \in Sockets |-> {}]
    /\ activeUsers = [u \in Identities |-> NoSocket]
    /\ users = [u \in Identities |-> NoUser]
    /\ groups = [g \in GroupIds |->
                   [exists |-> TRUE, admin |-> "alice",
                    members |-> <<"alice", "bob">>, ver |-> 0]]
    /\ messages = <<>>
    /\ inbox = [h \in Sockets |-> <<>>]
    /\ broadcast = <<>>
    /\ tasks = [t \in TaskIds |-> NoTask]
    /\ nextTask = 1
    /\ failures = 0

\* -------------------------------------------------------- socket: register
\* socket.on('register'), up to the await of User.findOneAndUpdate
Register(h, u) ==
    /\ CanDispatch(h)
    /\ IF u = NoName
       THEN /\ inbox' = EmitTo(connected, inbox, h,
                               ErrorEvent(nextTask, "Username is required"))
            /\ Spawn(Returned("register", h))
       ELSE /\ Spawn([NoTask EXCEPT !.kind = "register", !.sock = h,
                                    !.name = u, !.pc = "reg_db"])
            /\ UNCHANGED inbox
    /\ UNCHANGED <<connected, username, rooms, activeUsers, users, groups,
                   messages, broadcast, failures>>

\* the database applies findOneAndUpdate({username}, {socketId, online:true},
\* {upsert:true})
RegisterDb(t) ==
    /\ tasks[t].pc = "reg_db"
    /\ users' = [users EXCEPT ![tasks[t].name] =
                    [exists |-> TRUE, online |-> TRUE, socketId |-> tasks[t].sock]]
    /\ tasks' = [tasks EXCEPT ![t].pc = "reg_set"]
    /\ UNCHANGED <<connected, username, rooms, activeUsers, groups, messages,
                   inbox, broadcast, nextTask, failures>>

\* the findOneAndUpdate rejects: catch block of the register handler
RegisterDbFail(t) ==
    /\ tasks[t].pc = "reg_db"
    /\ CanFail
    /\ failures' = failures + 1
    /\ inbox' = EmitTo(connected, inbox, tasks[t].sock, ErrorEvent(t, "db error"))
    /\ tasks' = Finish(t)
    /\ UNCHANGED <<connected, username, rooms, activeUsers, users, groups,
                   messages, broadcast, nextTask>>

\* continuation: socket.username = username; activeUsers.set; io.emit
RegisterSet(t) ==
    /\ tasks[t].pc = "reg_set"
    /\ username' = [username EXCEPT ![tasks[t].sock] = tasks[t].name]
    /\ activeUsers' = [activeUsers EXCEPT ![tasks[t].name] = tasks[t].sock]
    /\ broadcast' = Append(broadcast,
                           [username |-> tasks[t].name, online |-> TRUE, task |-> t])
    /\ tasks' = Finish(t)
    /\ UNCHANGED <<connected, rooms, users, groups, messages, inbox,
                   nextTask, failures>>

\* ------------------------------------------------- socket: private_message
\* socket.on('private_message'), up to the await of message.save()
PrivateMessage(h, receiver, p) ==
    /\ CanDispatch(h)
    /\ IF username[h] = NoName
       THEN /\ inbox' = EmitTo(connected, inbox, h,
                               ErrorEvent(nextTask, "Not registered"))
            /\ Spawn(Returned("private_message", h))
       ELSE IF receiver = NoName
       THEN /\ inbox' = EmitTo(connected, inbox, h,
                               ErrorEvent(nextTask, "Receiver is required"))
            /\ Spawn(Returned("private_message", h))
       ELSE IF EmptyBody(p)
       THEN /\ inbox' = EmitTo(connected, inbox, h,
                               ErrorEvent(nextTask, "Message content or photo is required"))
            /\ Spawn(Returned("private_message", h))
       ELSE /\ Spawn([NoTask EXCEPT !.kind = "private_message", !.sock = h,
                                    !.name = receiver, !.content = p.content,
                                    !.photo = p.photo, !.sender = username[h],
                                    !.pc = "pm_save"])
            /\ UNCHANGED inbox
    /\ UNCHANGED <<connected, username, rooms, activeUsers, users, groups,
                   messages, broadcast, failures>>

\* the document built by `new Message({...})`; its _id is the invocation id
MessageDoc(t, type) ==
    [id |-> t, sender |-> tasks[t].sender,
     receiver |-> IF type = "private" THEN tasks[t].name ELSE NoName,
     groupId |-> IF type = "group" THEN tasks[t].gid ELSE NoGroup,
     content |-> tasks[t].content, photo |-> tasks[t].photo,
     type |-> type, read |-> FALSE]

\* a save that is not awaited: the handler goes on, nothing is stored yet
PmSaveUnawaited(t) ==
    /\ tasks[t].pc = "pm_save"
    /\ tasks' = [tasks EXCEPT ![t].pc = "pm_find"]
    /\ UNCHANGED <<connected, username, rooms, activeUsers, users, groups,
                   messages, inbox, broadcast, nextTask, failures>>

\* the database applies message.save()
PmSave(t) ==
    /\ tasks[t].pc = "pm_save"
    /\ messages' = Append(messages, MessageDoc(t, "private"))
    /\ tasks' = [tasks EXCEPT ![t].pc = "pm_find"]
    /\ UNCHANGED <<connected, username, rooms, activeUsers, users, groups,
                   inbox, broadcast, nextTask, failures>>

\* the database answers User.findOne({ username: receiver })
PmFind(t) ==
    /\ tasks[t].pc = "pm_find"
    /\ tasks' = [tasks EXCEPT ![t].found = FindUser(tasks[t].name),
                              ![t].pc = "pm_emit"]
    /\ UNCHANGED <<connected, username, rooms, activeUsers, users, groups,
                   messages, inbox, broadcast, nextTask, failures>>

\* a catch block that only logs: the sender is told nothing
PmFailSilent(t) ==
    /\ tasks[t].pc \in {"pm_save", "pm_find"}
    /\ CanFail
    /\ failures' = failures + 1
    /\ tasks' = Finish(t)
    /\ UNCHANGED <<connected, username, rooms, activeUsers, users, groups,
                   messages, inbox, broadcast, nextTask>>

\* message.save() or User.findOne rejects: catch block of the handler
PmFail(t) ==
    /\ tasks[t].pc \in {"pm_save", "pm_find"}
    /\ CanFail
    /\ failures' = failures + 1
    /\ inbox' = EmitTo(connected, inbox, tasks[t].sock, ErrorEvent(t, "db error"))
    /\ tasks' = Finish(t)
    /\ UNCHANGED <<connected, username, rooms, activeUsers, users, groups,
                   messages, broadcast, nextTask>>

\* the socket id the private message is routed to, or NoSocket
PrivateTarget(found) == IF Routable(found) THEN found.socketId ELSE NoSocket

\* continuation: io.to(receiverUser.socketId).emit('private_message') when
\* the receiver's document says online, then socket.emit('message_sent')
PmEmit(t) ==
    /\ tasks[t].pc = "pm_emit"
    /\ LET h == tasks[t].sock
           ev(type) == Event(type, t, username[h], tasks[t].name)
           tgt == PrivateTarget(tasks[t].found)
           mid == IF tgt # NoSocket
                  THEN EmitTo(connected, inbox, tgt, ev("private_message"))
                  ELSE inbox
       IN inbox' = EmitTo(connected, mid, h, ev("message_sent"))
    /\ tasks' = Finish(t)
    /\ UNCHANGED <<connected, username, rooms, activeUsers, users, groups,
                   messages, broadcast, nextTask, failures>>

\* --------------------------------------------------- socket: group_message
\* socket.on('group_message'), up to the await of Group.findById
GroupMessage(h, g, p) ==
    /\ CanDispatch(h)
    /\ IF username[h] = NoName
       THEN /\ inbox' = EmitTo(connected, inbox, h,
                               ErrorEvent(nextTask, "Not registered"))
            /\ Spawn(Returned("group_message", h))
       ELSE IF g = NoGroup
       THEN /\ inbox' = EmitTo(connected, inbox, h,
                               ErrorEvent(nextTask, "Group ID is required"))
            /\ Spawn(Returned("group_message", h))
       ELSE IF EmptyBody(p)
       THEN /\ inbox' = EmitTo(connected, inbox, h,
                               ErrorEvent(nextTask, "Message content or photo is required"))
            /\ Spawn(Returned("group_message", h))
       ELSE /\ Spawn([NoTask EXCEPT !.kind = "group_message", !.sock = h,
                                    !.gid = g, !.content = p.content,
                                    !.photo = p.photo, !.pc = "gm_group"])
            /\ UNCHANGED inbox
    /\ UNCHANGED <<connected, username, rooms, activeUsers, users, groups,
                   messages, broadcast, failures>>

\* Group.findById(id) : the document, or null
FindGroup(g) ==
    IF g \in GroupIds THEN groups[g]
    ELSE [exists |-> FALSE, admin |-> NoName, members |-> <<>>, ver |-> 0]

\* the database answers Group.findById(groupId)
GmGroup(t) ==
    /\ tasks[t].pc = "gm_group"
    /\ LET g == FindGroup(tasks[t].gid)
       IN tasks' = [tasks EXCEPT ![t].gexists = g.exists,
                                 ![t].members = g.members,
                                 ![t].pc = "gm_check"]
    /\ UNCHANGED <<connected, username, rooms, activeUsers, users, groups,
                   messages, inbox, broadcast, nextTask, failures>>

\* a membership test that admits everybody
AnyoneIsMember(ms, who) == TRUE

\* the `group.members.includes(socket.username)` test of group_message and
\* join_group
IsMember(ms, who) == Includes(ms, who)

\* continuation: the existence and membership checks, then `new Message`
\* with sender socket.username, up to the await of message.save()
GmCheck(t) ==
    /\ tasks[t].pc = "gm_check"
    /\ LET h == tasks[t].sock
       IN IF ~tasks[t].gexists
          THEN /\ inbox' = EmitTo(connected, inbox, h, ErrorEvent(t, "Group not found"))
               /\ tasks' = Finish(t)
          ELSE IF ~IsMember(tasks[t].members, username[h])
          THEN /\ inbox' = EmitTo(connected, inbox, h,
                                  ErrorEvent(t, "You are not a member of this group"))
               /\ tasks' = Finish(t)
          ELSE /\ tasks' = [tasks EXCEPT ![t].sender = username[h],
                                         ![t].pc = "gm_save"]
               /\ UNCHANGED inbox
    /\ UNCHANGED <<connected, username, rooms, activeUsers, users, groups,
                   messages, broadcast, nextTask, failures>>

\* the position after member i of the fanout loop: the next member's
\* User.findOne, or the end of the handler
AfterMember(t, i) == IF i < Len(tasks[t].members) THEN "gm_find" ELSE "done"

\* message.save() is applied and its continuation builds messageData (with
\* sender socket.username) and starts the loop over group.members
GmSave(t) ==
    /\ tasks[t].pc = "gm_save"
    /\ messages' = Append(messages, MessageDoc(t, "group"))
    /\ tasks' = IF AfterMember(t, 0) = "done" THEN Finish(t)
                ELSE [tasks EXCEPT ![t].dsender = username[tasks[t].sock],
                                   ![t].i = 1, ![t].pc = "gm_find"]
    /\ UNCHANGED <<connected, username, rooms, activeUsers, users, groups,
                   inbox, broadcast, nextTask, failures>>

\* the database answers User.findOne({ username: member }) for member i
GmFind(t) ==
    /\ tasks[t].pc = "gm_find"
    /\ tasks' = [tasks EXCEPT ![t].found = FindUser(tasks[t].members[tasks[t].i]),
                              ![t].pc = "gm_emit"]
    /\ UNCHANGED <<connected, username, rooms, activeUsers, users, groups,
                   messages, inbox, broadcast, nextTask, failures>>

\* continuation: io.to(user.socketId).emit('group_message', messageData) when
\* the member's document says online
GmEmit(t) ==
    /\ tasks[t].pc = "gm_emit"
    /\ LET tgt == PrivateTarget(tasks[t].found)
       IN inbox' = IF tgt # NoSocket
                   THEN EmitTo(connected, inbox, tgt,
                               Event("group_message", t, tasks[t].dsender,
                                     tasks[t].gid))
                   ELSE inbox
    /\ tasks' = IF AfterMember(t, tasks[t].i) = "done" THEN Finish(t)
                ELSE [tasks EXCEPT ![t].i = @ + 1, ![t].pc = "gm_find"]
    /\ UNCHANGED <<connected, username, rooms, activeUsers, users, groups,
                   messages, broadcast, nextTask, failures>>

\* Group.findById, message.save() or a User.findOne of the loop rejects:
\* catch block of the handler
GmFail(t) ==
    /\ tasks[t].pc \in {"gm_group", "gm_save", "gm_find"}
    /\ CanFail
    /\ failures' = failures + 1
    /\ inbox' = EmitTo(connected, inbox, tasks[t].sock, ErrorEvent(t, "db error"))
    /\ tasks' = Finish(t)
    /\ UNCHANGED <<connected, username, rooms, activeUsers, users, groups,
                   messages, broadcast, nextTask>>

\* ------------------------------------------ socket: join_group, leave_group
\* socket.on('join_group'), up to the await of Group.findById
JoinGroup(h, g) ==
    /\ CanDispatch(h)
    /\ Spawn([NoTask EXCEPT !.kind = "join_group", !.sock = h, !.gid = g,
                            !.pc = "jg_group"])
    /\ UNCHANGED <<connected, username, rooms, activeUsers, users, groups,
                   messages, inbox, broadcast, failures>>

\* the database answers Group.findById(groupId)
JgGroup(t) ==
    /\ tasks[t].pc = "jg_group"
    /\ LET g == FindGroup(tasks[t].gid)
       IN tasks' = [tasks EXCEPT ![t].gexists = g.exists,
                                 ![t].members = g.members,
                                 ![t].pc = "jg_check"]
    /\ UNCHANGED <<connected, username, rooms, activeUsers, users, groups,
                   messages, inbox, broadcast, nextTask, failures>>

\* Group.findById rejects: catch block of the handler
JgFail(t) ==
    /\ tasks[t].pc = "jg_group"
    /\ CanFail
    /\ failures' = failures + 1
    /\ inbox' = EmitTo(connected, inbox, tasks[t].sock, ErrorEvent(t, "db error"))
    /\ tasks' = Finish(t)
    /\ UNCHANGED <<connected, username, rooms, activeUsers, users, groups,
                   messages, broadcast, nextTask>>

\* continuation: the existence and membership checks, then socket.join
JgCheck(t) ==
    /\ tasks[t].pc = "jg_check"
    /\ LET h == tasks[t].sock
       IN IF ~tasks[t].gexists
          THEN /\ inbox' = EmitTo(connected, inbox, h, ErrorEvent(t, "Group not found"))
               /\ UNCHANGED rooms
          ELSE IF ~IsMember(tasks[t].members, username[h])
          THEN /\ inbox' = EmitTo(connected, inbox, h,
                                  ErrorEvent(t, "You are not a member of this group"))
               /\ UNCHANGED rooms
          ELSE /\ rooms' = [rooms EXCEPT ![h] = @ \cup {tasks[t].gid}]
               /\ UNCHANGED inbox
    /\ tasks' = Finish(t)
    /\ UNCHANGED <<connected, username, activeUsers, users, groups, messages,
                   broadcast, nextTask, failures>>

\* socket.on('leave_group'): synchronous
LeaveGroup(h, g) ==
    /\ CanDispatch(h)
    /\ rooms' = [rooms EXCEPT ![h] = @ \ {g}]
    /\ Spawn(Returned("leave_group", h))
    /\ UNCHANGED <<connected, username, activeUsers, users, groups, messages,
                   inbox, broadcast, failures>>

\* ------------------------------------------------ socket: typing, stop_typing
TypingKinds == {"typing", "stop_typing"}

\* the event a typing / stop_typing handler sends to the receiver
TypingEvent(kind) == IF kind = "typing" THEN "user_typing" ELSE "user_stop_typing"

\* socket.on('typing') and socket.on('stop_typing'), up to the await of
\* User.findOne; neither handler checks socket.username
Typing(h, kind, receiver) ==
    /\ CanDispatch(h)
    /\ Spawn([NoTask EXCEPT !.kind = kind, !.sock = h, !.name = receiver,
                            !.pc = "ty_find"])
    /\ UNCHANGED <<connected, username, rooms, activeUsers, users, groups,
                   messages, inbox, broadcast, failures>>

\* the database answers User.findOne({ username: receiver })
TyFind(t) ==
    /\ tasks[t].pc = "ty_find"
    /\ tasks' = [tasks EXCEPT ![t].found = FindUser(tasks[t].name),
                              ![t].pc = "ty_emit"]
    /\ UNCHANGED <<connected, username, rooms, activeUsers, users, groups,
                   messages, inbox, broadcast, nextTask, failures>>

\* User.findOne rejects: the handler has no try/catch, the rejection goes to
\* process.on('unhandledRejection'), which only logs
TyFail(t) ==
    /\ tasks[t].pc = "ty_find"
    /\ CanFail
    /\ failures' = failures + 1
    /\ tasks' = Finish(t)
    /\ UNCHANGED <<connected, username, rooms, activeUsers, users, groups,
                   messages, inbox, broadcast, nextTask>>

\* continuation: io.to(receiverUser.socketId).emit('user_typing' or
\* 'user_stop_typing', { username: socket.username })
TyEmit(t) ==
    /\ tasks[t].pc = "ty_emit"
    /\ LET tgt == PrivateTarget(tasks[t].found)
       IN inbox' = IF tgt # NoSocket
                   THEN EmitTo(connected, inbox, tgt,
                               Event(TypingEvent(tasks[t].kind), 0,
                                     username[tasks[t].sock], tasks[t].name))
                   ELSE inbox
    /\ tasks' = Finish(t)
    /\ UNCHANGED <<connected, username, rooms, activeUsers, users, groups,
                   messages, broadcast, nextTask, failures>>

\* ------------------------------------------------------ socket: disconnect
\* the transport closes (socket.io empties the socket's rooms) and
\* socket.on('disconnect') runs up to the await of User.findOneAndUpdate
Disconnect(h) ==
    /\ CanDispatch(h)
    /\ connected' = [connected EXCEPT ![h] = FALSE]
    /\ rooms' = [rooms EXCEPT ![h] = {}]
    /\ IF username[h] # NoName
       THEN Spawn([NoTask EXCEPT !.kind = "disconnect", !.sock = h,
                                 !.name = username[h], !.pc = "dc_db"])
       ELSE Spawn(Returned("disconnect", h))
    /\ UNCHANGED <<username, activeUsers, users, groups, messages, inbox,
                   broadcast, failures>>

\* the database applies findOneAndUpdate({username}, {online:false}), no upsert
DisconnectDb(t) ==
    /\ tasks[t].pc = "dc_db"
    /\ users' = [users EXCEPT ![tasks[t].name] =
                    IF @.exists THEN [@ EXCEPT !.online = FALSE] ELSE @]
    /\ tasks' = [tasks EXCEPT ![t].pc = "dc_del"]
    /\ UNCHANGED <<connected, username, rooms, activeUsers, groups, messages,
                   inbox, broadcast, nextTask, failures>>

\* the findOneAndUpdate rejects: the catch block only logs
DisconnectDbFail(t) ==
    /\ tasks[t].pc = "dc_db"
    /\ CanFail
    /\ failures' = failures + 1
    /\ tasks' = Finish(t)
    /\ UNCHANGED <<connected, username, rooms, activeUsers, users, groups,
                   messages, inbox, broadcast, nextTask>>

\* continuation: activeUsers.delete(socket.username); io.emit('user_status')
DisconnectDelete(t) ==
    /\ tasks[t].pc = "dc_del"
    /\ LET u == username[tasks[t].sock]
       IN /\ activeUsers' = [activeUsers EXCEPT ![u] = NoSocket]
          /\ broadcast' = Append(broadcast,
                                 [username |-> u, online |-> FALSE, task |-> t])
    /\ tasks' = Finish(t)
    /\ UNCHANGED <<connected, username, rooms, users, groups, messages, inbox,
                   nextTask, failures>>

\* ------------------------------------------- REST: group member list changes
\* app.post('/api/groups/:id/members'), up to the await of Group.findById
AddMember(g, u) ==
    /\ nextTask <= MaxEvents
    /\ Spawn([NoTask EXCEPT !.kind = "add_member", !.gid = g, !.name = u,
                            !.pc = "am_read"])
    /\ UNCHANGED <<connected, username, rooms, activeUsers, users, groups,
                   messages, inbox, broadcast, failures>>

\* app.delete('/api/groups/:id/members/:username'), up to the await of
\* Group.findById
RemoveMember(g, u) ==
    /\ nextTask <= MaxEvents
    /\ Spawn([NoTask EXCEPT !.kind = "remove_member", !.gid = g, !.name = u,
                            !.pc = "rm_read"])
    /\ UNCHANGED <<connected, username, rooms, activeUsers, users, groups,
                   messages, inbox, broadcast, failures>>

\* the database answers Group.findById(req.params.id); the continuation
\* answers 404 / 400 or changes group.members and calls group.save()
RestRead(t) ==
    /\ tasks[t].pc \in {"am_read", "rm_read"}
    /\ LET g == FindGroup(tasks[t].gid)
           refused == IF tasks[t].kind = "add_member"
                      THEN Includes(g.members, tasks[t].name)
                      ELSE g.admin = tasks[t].name
       IN tasks' = IF ~g.exists \/ refused THEN Finish(t)
                   ELSE [tasks EXCEPT ![t].members = g.members,
                                      ![t].ver = g.ver,
                                      ![t].pc = IF tasks[t].kind = "add_member"
                                                THEN "am_save" ELSE "rm_save"]
    /\ UNCHANGED <<connected, username, rooms, activeUsers, users, groups,
                   messages, inbox, broadcast, nextTask, failures>>

\* group.members.push(username); group.save(): mongoose sends the push as an
\* atomic $push on the stored array
AddMemberSave(t) ==
    /\ tasks[t].pc = "am_save"
    /\ groups' = [groups EXCEPT ![tasks[t].gid] =
                     [@ EXCEPT !.members = Append(@, tasks[t].name),
                               !.ver = @ + 1]]
    /\ tasks' = Finish(t)
    /\ UNCHANGED <<connected, username, rooms, activeUsers, users, messages,
                   inbox, broadcast, nextTask, failures>>

\* group.members = group.members.filter(...); group.save(): mongoose sends a
\* replaced array as a $set guarded by the document version it loaded (a
\* stale version is a VersionError, answered 500); an unchanged array is not
\* written
RemoveMemberSave(t) ==
    /\ tasks[t].pc = "rm_save"
    /\ LET g == groups[tasks[t].gid]
           ms == FilterOut(tasks[t].members, tasks[t].name)
       IN groups' = IF ms # tasks[t].members /\ g.ver = tasks[t].ver
                    THEN [groups EXCEPT ![tasks[t].gid] =
                             [@ EXCEPT !.members = ms, !.ver = @ + 1]]
                    ELSE groups
    /\ tasks' = Finish(t)
    /\ UNCHANGED <<connected, username, rooms, activeUsers, users, messages,
                   inbox, broadcast, nextTask, failures>>

\* Group.findById or group.save() rejects: the catch block answers 500
RestFail(t) ==
    /\ tasks[t].pc \in {"am_read", "rm_read", "am_save", "rm_save"}
    /\ CanFail
    /\ failures' = failures + 1
    /\ tasks' = Finish(t)
    /\ UNCHANGED <<connected, username, rooms, activeUsers, users, groups,
                   messages, inbox, broadcast, nextTask>>

Next ==
    \/ \E h \in Sockets, u \in Identities \cup {NoName} : Register(h, u)
    \/ \E t \in TaskIds : RegisterDb(t)
    \/ \E t \in TaskIds : RegisterDbFail(t)
    \/ \E t \in TaskIds : RegisterSet(t)
    \/ \E h \in Sockets, r \in Identities \cup {NoName}, p \in Payloads :
          PrivateMessage(h, r, p)
    \/ \E t \in TaskIds : PmSave(t)
    \/ \E t \in TaskIds : PmFind(t)
    \/ \E t \in TaskIds : PmFail(t)
    \/ \E t \in TaskIds : PmEmit(t)
    \/ \E h \in Sockets, g \in GroupIds \cup {NoGroup, MissingGroup}, p \in Payloads :
          GroupMessage(h, g, p)
    \/ \E t \in TaskIds : GmGroup(t)
    \/ \E t \in TaskIds : GmCheck(t)
    \/ \E t \in TaskIds : GmSave(t)
    \/ \E t \in TaskIds : GmFind(t)
    \/ \E t \in TaskIds : GmEmit(t)
    \/ \E t \in TaskIds : GmFail(t)
    \/ \E h \in Sockets, g \in GroupIds \cup {MissingGroup} : JoinGroup(h, g)
    \/ \E t \in TaskIds : JgGroup(t)
    \/ \E t \in TaskIds : JgFail(t)
    \/ \E t \in TaskIds : JgCheck(t)
    \/ \E h \in Sockets, g \in GroupIds : LeaveGroup(h, g)
    \/ \E h \in Sockets, k \in TypingKinds, r \in Identities : Typing(h, k, r)
    \/ \E t \in TaskIds : TyFind(t)
    \/ \E t \in TaskIds : TyFail(t)
    \/ \E t \in TaskIds : TyEmit(t)
    \/ \E h \in Sockets : Disconnect(h)
    \/ \E t \in TaskIds : DisconnectDb(t)
    \/ \E t \in TaskIds : DisconnectDbFail(t)
    \/ \E t \in TaskIds : DisconnectDelete(t)

    \/ \E g \in GroupIds, u \in Identities : AddMember(g, u)
    \/ \E g \in GroupIds, u \in Identities : RemoveMember(g, u)
    \/ \E t \in TaskIds : RestRead(t)
    \/ \E t \in TaskIds : AddMemberSave(t)
    \/ \E t \in TaskIds : RemoveMemberSave(t)
    \/ \E t \in TaskIds : RestFail(t)

Spec == Init /\ [][Next]_vars

\* the next step of the private_message handler invocation t: the database
\* answers the pending call, with success or with a failure, or the
\* continuation runs
PmStep(t) == PmSave(t) \/ PmFind(t) \/ PmFail(t) \/ PmEmit(t)

\* the event loop runs every continuation that is ready and the database
\* answers every pending call of a private send
FairSpec == Spec /\ \A t \in TaskIds : WF_vars(PmStep(t))

\* ======================================================== checked properties
\* the step taken by handler invocation t, at position pc
Steps(t, pc) == tasks[t].pc = pc /\ tasks'[t] # tasks[t]

\* activeUsers.get(u), for any argument
Lookup(u) == IF u \in Identities THEN activeUsers[u] ELSE NoSocket

\* the events of the given types that carry message id in the inbox of h
EventsOf(inb, h, id, types) ==
    { k \in 1..Len(inb[h]) : inb[h][k].id = id /\ inb[h][k].type \in types }

MessageIds == { messages[k].id : k \in 1..Len(messages) }

\* C1: a disconnect of connection h removes identity I from activeUsers if and
\* only if h is the current owner of I's entry, and it broadcasts online=false
\* for I only then (register(I,h1), register(I,h2), disconnect(h1) leaves
\* lookup(I) = h2).
C1_DisconnectRemovesOnlyOwner ==
    [][\A t \in TaskIds : Steps(t, "dc_del") =>
          \A I \in Identities :
             /\ (activeUsers[I] # NoSocket /\ activeUsers'[I] = NoSocket)
                   <=> activeUsers[I] = tasks[t].sock
             /\ (/\ Len(broadcast') > Len(broadcast)
                 /\ broadcast'[Len(broadcast')].username = I
                 /\ ~broadcast'[Len(broadcast')].online)
                   => activeUsers[I] = tasks[t].sock]_vars

\* C2: lookup(I) changes only when a register of I completes (to that
\* register's socket) or when the socket that owns I's entry unregisters; and
\* of two overlapping registers of I the one issued last wins: a register
\* that completes after a later-issued register of I leaves the entry alone.
C2_LookupFollowsRegister ==
    [][\A I \in Identities :
          /\ activeUsers'[I] # activeUsers[I] =>
                \E t \in TaskIds :
                   \/ /\ Steps(t, "reg_set")
                      /\ tasks[t].name = I
                      /\ activeUsers'[I] = tasks[t].sock
                   \/ /\ Steps(t, "dc_del")
                      /\ tasks[t].sock = activeUsers[I]
                      /\ activeUsers'[I] = NoSocket
          /\ \A t \in TaskIds :
                (/\ Steps(t, "reg_set")
                 /\ tasks[t].name = I
                 /\ \E k \in 1..Len(broadcast) :
                       /\ broadcast[k].username = I
                       /\ broadcast[k].online
                       /\ broadcast[k].task > t)
                   => activeUsers'[I] = activeUsers[I]]_vars

\* C3: each step of a group send's fanout delivers the group message of
\* member m to the connection activeUsers holds for m, once, and to no other
\* connection (nothing when m has no entry).
C3_GroupFanoutFollowsRegistry ==
    [][\A t \in TaskIds : Steps(t, "gm_emit") =>
          LET m == tasks[t].members[tasks[t].i]
              ev == Event("group_message", t, tasks[t].dsender, tasks[t].gid)
          IN inbox' = EmitTo(connected, inbox, Lookup(m), ev)]_vars

\* C4: a valid private send to receiver R is delivered to the connection
\* lookup(R) = h holds at routing time, and to no other connection apart from
\* the sender's confirmation, whatever the receiver's User document says.
C4_PrivateRoutedByRegistry ==
    [][\A t \in TaskIds :
          (Steps(t, "pm_emit") /\ Lookup(tasks[t].name) # NoSocket) =>
             LET h == tasks[t].sock
                 ev(type) == Event(type, t, username[h], tasks[t].name)
             IN inbox' = EmitTo(connected,
                                EmitTo(connected, inbox, Lookup(tasks[t].name),
                                       ev("private_message")),
                                h, ev("message_sent"))]_vars

\* C5: a valid private send to a receiver that has no activeUsers entry has
\* persisted exactly one private, unread Message and emits nothing but the
\* message_sent confirmation to the sender.
C5_OfflinePrivateSend ==
    [][\A t \in TaskIds :
          (Steps(t, "pm_emit") /\ Lookup(tasks[t].name) = NoSocket) =>
             LET h == tasks[t].sock
             IN /\ inbox' = EmitTo(connected, inbox, h,
                                   Event("message_sent", t, username[h],
                                         tasks[t].name))
                /\ Cardinality({ k \in 1..Len(messages') :
                                    messages'[k].id = t }) = 1
                /\ \A k \in 1..Len(messages') :
                      messages'[k].id = t =>
                         messages'[k].type = "private" /\ ~messages'[k].read]_vars

EmptyPayload == [content |-> "", photo |-> ""]
ContentRequired == "Message content or photo is required"
MessageEvents == {"private_message", "message_sent", "group_message"}

\* C6: a private send and a group send in which content and photo are both
\* empty return at once with one error event sent to the sender only: no
\* Message is persisted, no other socket is sent anything and no confirmation
\* follows.  From a Bound session that names a receiver (a group id) the
\* error is the content validation error.
C6_EmptySendRejected ==
    [][\A h \in Sockets :
          LET refused ==
                 /\ messages' = messages
                 /\ tasks'[nextTask].pc = "done"
                 /\ \E info \in {"Not registered", "Receiver is required",
                                 "Group ID is required", ContentRequired} :
                       inbox' = EmitTo(connected, inbox, h,
                                       ErrorEvent(nextTask, info))
              validation ==
                 inbox' = EmitTo(connected, inbox, h,
                                 ErrorEvent(nextTask, ContentRequired))
          IN /\ \A r \in Identities \cup {NoName} :
                   PrivateMessage(h, r, EmptyPayload) =>
                      /\ refused
                      /\ (username[h] # NoName /\ r # NoName) => validation
             /\ \A g \in GroupIds \cup {NoGroup, MissingGroup} :
                   GroupMessage(h, g, EmptyPayload) =>
                      /\ refused
                      /\ (username[h] # NoName /\ g # NoGroup) => validation]_vars

\* an invocation of the given handler has returned after sending its socket
\* the given error, and its id is on no Message
RefusedWith(kind, info) ==
    \E t \in TaskIds :
       /\ tasks[t].kind = kind
       /\ tasks[t].pc = "done"
       /\ \E k \in 1..Len(inbox[tasks[t].sock]) :
             inbox[tasks[t].sock][k] = ErrorEvent(t, info)
       /\ t \notin MessageIds

C6_Witness ==
    /\ RefusedWith("private_message", ContentRequired)
    /\ RefusedWith("group_message", ContentRequired)

\* C7: a group send whose sender is not in the member list read by that send
\* returns with the forbidden error to the sender, and one to a group that
\* does not exist with the not-found error; neither persists a Message nor
\* sends any message event.
C7_NonMemberGroupSendRejected ==
    [][\A t \in TaskIds : Steps(t, "gm_check") =>
          LET h == tasks[t].sock
              refusal == IF ~tasks[t].gexists THEN "Group not found"
                         ELSE IF ~Includes(tasks[t].members, username[h])
                         THEN "You are not a member of this group"
                         ELSE ""
          IN refusal # "" =>
               /\ inbox' = EmitTo(connected, inbox, h, ErrorEvent(t, refusal))
               /\ messages' = messages
               /\ t \notin MessageIds
               /\ tasks'[t].pc = "done"
               /\ \A h2 \in Sockets :
                     EventsOf(inbox', h2, t, MessageEvents) = {}]_vars

C7_Witness == RefusedWith("group_message", "You are not a member of this group")

C9_RegistryMatchesSession ==
    \A I \in Identities :
       activeUsers[I] # NoSocket => username[activeUsers[I]] = I

\* the disconnect handler of socket h has run its activeUsers.delete
Unregistered(h) ==
    \E k \in 1..Len(broadcast) :
       ~broadcast[k].online /\ tasks[broadcast[k].task].sock = h

\* C10: handlers of one connection are serialized, so once the disconnect of
\* a session has unregistered it no send of that session persists a Message
\* or emits an event any more.
C10_NoSendAfterUnregister ==
    [][\A t \in TaskIds :
          (/\ tasks[t].kind \in {"private_message", "group_message"}
           /\ tasks'[t] # tasks[t]
           /\ Unregistered(tasks[t].sock))
             => messages' = messages /\ inbox' = inbox]_vars

\* C11: the events of one connection are handled in arrival order: of two
\* private sends of one socket to the same receiver the earlier one is
\* persisted first, reaches the receiver first and is confirmed to the
\* sender first, however the database calls interleave.
C11_SendsKeepArrivalOrder ==
    \A t1, t2 \in TaskIds :
       (/\ t1 < t2
        /\ tasks[t1].kind = "private_message"
        /\ tasks[t2].kind = "private_message"
        /\ tasks[t1].sock = tasks[t2].sock)
          => /\ \A k1, k2 \in 1..Len(messages) :
                   (/\ messages[k1].id = t1
                    /\ messages[k2].id = t2
                    /\ messages[k1].receiver = messages[k2].receiver)
                      => k1 < k2
             /\ \A h \in Sockets :
                \A type \in {"private_message", "message_sent"} :
                \A k1 \in EventsOf(inbox, h, t1, {type}) :
                \A k2 \in EventsOf(inbox, h, t2, {type}) :
                   inbox[h][k1].info = inbox[h][k2].info => k1 < k2

\* the events that need a sender identity
IdentityEvents ==
    {"private_message", "group_message", "join_group", "typing", "stop_typing"}

\* C12: a private send, group send, join group, typing or stop typing
\* received while the session is Unbound returns at once with the error
\* "Not registered" sent to that session only; no step of such a handler
\* persists a Message, joins a room, sends any event to another connection,
\* closes the session or binds it.
C12_UnboundEventsRefused ==
    [][\A h \in Sockets :
          username[h] = NoName
             => /\ (/\ nextTask' = nextTask + 1
                    /\ tasks'[nextTask].sock = h
                    /\ tasks'[nextTask].kind \in IdentityEvents)
                      => /\ tasks'[nextTask].pc = "done"
                         /\ inbox' = EmitTo(connected, inbox, h,
                                            ErrorEvent(nextTask, "Not registered"))
                /\ \A t \in TaskIds :
                      (/\ tasks[t].sock = h
                       /\ tasks[t].kind \in IdentityEvents
                       /\ tasks'[t] # tasks[t])
                         => /\ messages' = messages
                            /\ rooms' = rooms
                            /\ \A o \in Sockets \ {h} : inbox'[o] = inbox[o]
                            /\ connected'[h] = connected[h]
                            /\ username'[h] = NoName]_vars

\* handler invocation t returns in this step because its database call failed
FailsAt(t, pc) ==
    /\ Steps(t, pc)
    /\ failures' = failures + 1
    /\ tasks'[t].pc = "done"

\* C13: the presence write is best effort.  When it fails in register(I) the
\* session is Bound(I), activeUsers maps I to the socket and online=true is
\* broadcast all the same; when it fails in the disconnect of the socket
\* that owns I's entry, the entry is removed and online=false is broadcast
\* all the same.
C13_PresenceWriteBestEffort ==
    [][\A t \in TaskIds :
          LET h == tasks[t].sock
              I == tasks[t].name
          IN /\ FailsAt(t, "reg_db")
                  => /\ username'[h] = I
                     /\ activeUsers'[I] = h
                     /\ broadcast' = Append(broadcast,
                           [username |-> I, online |-> TRUE, task |-> t])
             /\ (FailsAt(t, "dc_db") /\ activeUsers[I] = h)
                  => /\ activeUsers'[I] = NoSocket
                     /\ broadcast' = Append(broadcast,
                           [username |-> I, online |-> FALSE, task |-> t])]_vars

\* the sender of send t has been sent the error of a failed database call
SendFailed(t) ==
    /\ tasks[t].kind \in {"private_message", "group_message"}
    /\ \E k \in 1..Len(inbox[tasks[t].sock]) :
          inbox[tasks[t].sock][k] = ErrorEvent(t, "db error")

\* C14: a send whose sender was sent the error of a failed database call has
\* delivered its message to no receiver or group member and was not
\* confirmed, wherever the call failed (the save, the lookup after the save,
\* a lookup in the middle of the group loop); and every delivered message is
\* persisted.
C14_FailedSendDeliversNothing ==
    /\ \A t \in TaskIds :
          SendFailed(t)
             => \A h \in Sockets : EventsOf(inbox, h, t, MessageEvents) = {}
    /\ \A h \in Sockets : \A k \in 1..Len(inbox[h]) :
          inbox[h][k].type \in MessageEvents => inbox[h][k].id \in MessageIds

\* C15: a session only goes from Unbound to Bound(I) and from either to
\* Closed: a closed socket never opens again, a register with an empty
\* identity is answered with the validation error and changes neither the
\* session nor activeUsers, and the identity of a Bound session never
\* changes (no later register rebinds the socket).
C15_SessionTransitions ==
    [][\A h \in Sockets :
          /\ connected'[h] => connected[h]
          /\ Register(h, NoName)
                => /\ inbox' = EmitTo(connected, inbox, h,
                                      ErrorEvent(nextTask, "Username is required"))
                   /\ username' = username
                   /\ activeUsers' = activeUsers
          /\ username[h] # NoName => username'[h] = username[h]]_vars

\* no identity stands twice in the list
NoDuplicate(ms) == \A i, j \in 1..Len(ms) : ms[i] = ms[j] => i = j

\* C16: however group creation, add-member and remove-member requests
\* interleave, the member list of every group holds its admin and holds no
\* identity twice; a request to remove the admin is refused and leaves the
\* group as it was.
C16_GroupMemberSet ==
    [][/\ \A g \in GroupIds :
             groups'[g].exists
                => /\ Includes(groups'[g].members, groups'[g].admin)
                   /\ NoDuplicate(groups'[g].members)
       /\ \A t \in TaskIds :
             (/\ tasks[t].kind = "remove_member"
              /\ tasks[t].name = FindGroup(tasks[t].gid).admin
              /\ tasks'[t] # tasks[t])
                => groups' = groups /\ tasks'[t].pc = "done"]_vars

\* socket h owns an entry of activeUsers under its bound identity
Owner(h) == username[h] # NoName /\ activeUsers[username[h]] = h

\* C17: a register of I that succeeds broadcasts (I, online=true); a
\* broadcast (I, online=false) is made only in the step in which the socket
\* that owns I's entry removes it; and the disconnect of an Unbound session
\* or of a socket that owns no entry changes neither activeUsers nor the
\* broadcasts.
C17_PresenceBroadcasts ==
    [][/\ \A t \in TaskIds :
             Steps(t, "reg_set")
                => broadcast' = Append(broadcast,
                      [username |-> tasks[t].name, online |-> TRUE, task |-> t])
       /\ (/\ Len(broadcast') > Len(broadcast)
           /\ ~broadcast'[Len(broadcast')].online)
             => LET b == broadcast'[Len(broadcast')]
                IN /\ activeUsers[b.username] = tasks[b.task].sock
                   /\ activeUsers'[b.username] = NoSocket
       /\ \A h \in Sockets :
             ~Owner(h)
                => /\ Disconnect(h)
                      => activeUsers' = activeUsers /\ broadcast' = broadcast
                   /\ \A t \in TaskIds :
                         (/\ tasks[t].kind = "disconnect"
                          /\ tasks[t].sock = h
                          /\ tasks'[t] # tasks[t])
                            => /\ activeUsers' = activeUsers
                               /\ broadcast' = broadcast]_vars

\* the disconnect handler of the closed socket h has returned
DisconnectHandled(h) ==
    /\ ~connected[h]
    /\ \A t \in TaskIds :
          (tasks[t].kind = "disconnect" /\ tasks[t].sock = h)
             => tasks[t].pc = "done"

\* C18: activeUsers names live connections only: once the disconnect of a
\* socket has been handled no entry names that socket, also when the
\* disconnect arrived while a register of the socket awaited its database
\* write and when the socket had registered two identities.
C18_RegistryNamesLiveSockets ==
    \A I \in Identities :
       activeUsers[I] # NoSocket => ~DisconnectHandled(activeUsers[I])

\* C19: the fanout of one group message sends its event to every connection
\* at most once, also when an identity stands twice in the member list or
\* when two members resolve to the same connection.
C19_FanoutOncePerConnection ==
    \A h \in Sockets : \A t \in TaskIds :
       Cardinality(EventsOf(inbox, h, t, {"group_message"})) <= 1

\* no register and no disconnect handler is between its start and its return
PresenceQuiet ==
    \A t \in TaskIds :
       tasks[t].kind \in {"register", "disconnect"} => tasks[t].pc = "done"

\* C20: whenever no register and no disconnect handler is in flight the User
\* documents agree with activeUsers: the document of I says online with
\* socket h exactly when activeUsers maps I to h, however the handlers
\* interleaved before.
C20_MirrorAgreesWithRegistry ==
    PresenceQuiet
       => \A I \in Identities : \A h \in Sockets :
             (users[I].exists /\ users[I].online /\ users[I].socketId = h)
                <=> activeUsers[I] = h

\* the handler invocation t is a private send
IsPrivateSend(t) == tasks[t].kind = "private_message"

\* the message_sent and error events that invocation t has sent its socket
Responses(t) ==
    EventsOf(inbox, tasks[t].sock, t, {"message_sent", "error"})

\* C21: when the event loop is fair and the database always answers, every
\* private_message event is answered: its handler returns, it has then sent
\* its socket exactly one message_sent or error event (nothing reaches a
\* socket its client has closed meanwhile), never two, and no step of the
\* handler closes the connection.
C21_PrivateSendAnswered ==
    /\ \A t \in TaskIds :
          IsPrivateSend(t) ~> (IsPrivateSend(t) /\ tasks[t].pc = "done")
    /\ [](\A t \in TaskIds :
             IsPrivateSend(t)
                => /\ Cardinality(Responses(t)) <= 1
                   /\ (tasks[t].pc = "done" /\ connected[tasks[t].sock])
                         => Cardinality(Responses(t)) = 1)
    /\ [][\A t \in TaskIds :
             (IsPrivateSend(t) /\ tasks'[t] # tasks[t])
                => connected' = connected]_vars

\* a private send was confirmed, another was answered with the error of a
\* failed database call, and both sockets are still open
C21_Witness ==
    \E t1, t2 \in TaskIds :
       /\ IsPrivateSend(t1) /\ tasks[t1].pc = "done"
       /\ IsPrivateSend(t2) /\ tasks[t2].pc = "done"
       /\ connected[tasks[t1].sock] /\ connected[tasks[t2].sock]
       /\ \E k \in Responses(t1) : inbox[tasks[t1].sock][k].type = "message_sent"
       /\ \E k \in Responses(t2) :
             inbox[tasks[t2].sock][k] = ErrorEvent(t2, "db error")
====
